---- MODULE Spec2Model ----
(***************************************************************************)
(* Quantum Slot Machine backend (src/backend/main.py).                     *)
(*                                                                         *)
(* The module models the process-wide hardware state set up at import      *)
(* time (IBM_TOKEN, service, quantum_backend, using_real_quantum) and the  *)
(* POST /spin handler.  The handler is an `async def` that never awaits,   *)
(* so one request runs from its first line to its response before the     *)
(* next one starts; the model therefore follows a single request through   *)
(* its statements (pc) and lets the remote calls succeed, raise or, for    *)
(* job.result(), never return.                                             *)
(***************************************************************************)
EXTENDS Integers, Sequences, FiniteSets

(***************************************************************************)
(* Program constants.                                                      *)
(***************************************************************************)
SHOTS == 100

QUEUE_LIMIT == 10

MAX_QUEUE_WAIT == 300

NUM_QUBITS == 3

SYMBOLS == <<"cherry", "lemon", "orange", "grape", "star", "gem", "seven", "bell">>

PLACEHOLDER_TOKEN == "your_token_here"

SIMULATOR_NAME == "qiskit_aer_simulator"

\* quantum_backend.name of the resolved hardware target
HARDWARE_NAME == "ibm_hardware"

\* Python's None for an Optional[int] that is otherwise >= 0
None == -1

(***************************************************************************)
(* Bounds of the model.                                                    *)
(***************************************************************************)
\* pending_jobs values range over QUEUE_LIMIT - PendingSpread .. QUEUE_LIMIT + PendingSpread
PendingSpread == 1

\* the simulator's shots fall on outcomes in this many groups
SimGroups == 2

\* the returned quasi-distribution spreads its probability in this many pieces
QuasiPieces == 2

\* a quasi-probability is a multiple of 1 / (SHOTS * Resolution)
Resolution == 2

Outcomes == 0..(2^NUM_QUBITS - 1)

PendingValues == (QUEUE_LIMIT - PendingSpread)..(QUEUE_LIMIT + PendingSpread)

TokenValues == {"", PLACEHOLDER_TOKEN, "secret"}

Thetas == {"0", "pi/3", "pi/2", "pi"}

VARIABLES
    IBM_TOKEN,               \* os.getenv("IBM_QUANTUM_TOKEN"); "" when unset or empty
    USE_SIMULATOR_FALLBACK,  \* fallback-on-busy
    service,                 \* TRUE when QiskitRuntimeService was constructed
    quantum_backend,         \* TRUE when a hardware target was resolved
    using_real_quantum,      \* the process-wide using-hardware flag
    pc,                      \* position of the process / of the request in flight
    request,                 \* SpinRequest of the request in flight
    pending_jobs,            \* local of spin
    backend_name,            \* local of spin
    queue_position,          \* local of spin
    counts,                  \* local of spin: sequence of [key, n] in dict order
    measurement_str,         \* local of spin: the key drawn by random.choices
    jobHung,                 \* the submitted job never returns a result
    response,                \* the SpinResponse (or the error) of the finished request
    hist                     \* history of the run, read by the properties only

globals == <<IBM_TOKEN, USE_SIMULATOR_FALLBACK, service, quantum_backend, using_real_quantum>>

locals == <<request, pending_jobs, backend_name, queue_position, counts, measurement_str, jobHung>>

vars == <<globals, locals, pc, response, hist>>

(***************************************************************************)
(* Pure helpers.                                                           *)
(***************************************************************************)
Digit(b) == IF b = 0 THEN "0" ELSE "1"

RECURSIVE Bin(_)
\* the binary digits of n, most significant first, as a sequence of characters
Bin(n) == IF n < 2 THEN <<Digit(n)>> ELSE Bin(n \div 2) \o <<Digit(n % 2)>>

RECURSIVE ZeroPad(_, _)
ZeroPad(s, width) == IF Len(s) >= width THEN s ELSE ZeroPad(<<"0">> \o s, width)

\* format(outcome, '03b')
Format03b(outcome) == ZeroPad(Bin(outcome), 3)

\* int(bit) for a character of a bit-string
IntOfBit(c) == IF c = "0" THEN 0 ELSE 1

Xor(a, b) == (a + b) % 2

\* create_quantum_circuit without the test of line 110
create_quantum_circuit_always_cx(theta, entanglement) == [ry |-> theta, cx |-> TRUE]

\* create_quantum_circuit: RY(theta) on each qubit, CX(0,1) and CX(1,2) when
\* entangled, then measurement of qubit i into classical bit i
create_quantum_circuit(theta, entanglement) == [ry |-> theta, cx |-> entanglement]

\* the values a qubit can be measured in after RY(theta) on |0>
RYBits(theta) ==
    CASE theta = "0" -> {0}
      [] theta = "pi" -> {1}
      [] OTHER -> {0, 1}

\* line 105: the probability, in quarters, of measuring `bit` after RY(theta)
\* on |0>: cos^2(theta/2) for 0 and sin^2(theta/2) for 1
RYWeight(theta, bit) ==
    LET one == CASE theta = "0" -> 0
                 [] theta = "pi/3" -> 1
                 [] theta = "pi/2" -> 2
                 [] OTHER -> 4
    IN  IF bit = 1 THEN one ELSE 4 - one

\* classical register value (bit i = qubit i) of the circuit for the three
\* single-qubit values q0, q1, q2 taken before the CX chain
Register(qc, q0, q1, q2) ==
    LET c0 == q0
        c1 == IF qc.cx THEN Xor(q1, c0) ELSE q1
        c2 == IF qc.cx THEN Xor(q2, c1) ELSE q2
    IN  c0 + 2 * c1 + 4 * c2

\* the outcomes a noiseless run of the circuit can produce
IdealSupport(qc) ==
    { Register(qc, q0, q1, q2) : q0 \in RYBits(qc.ry), q1 \in RYBits(qc.ry), q2 \in RYBits(qc.ry) }

RECURSIVE SumOver(_, _)
SumOver(S, f) ==
    IF S = {} THEN 0
    ELSE LET x == CHOOSE y \in S : TRUE IN f[x] + SumOver(S \ {x}, f)

\* how much of `size` lands on outcome o under the assignment a of pieces to outcomes
Landed(a, size, o) == SumOver({ g \in DOMAIN a : a[g] = o }, size)

\* the probability of the register value r, in units of 1/64: the qubit values
\* before the CX chain are independent
JointWeight(qc, r) ==
    LET T == { q \in [0..2 -> {0, 1}] : Register(qc, q[0], q[1], q[2]) = r }
    IN  SumOver(T, [q \in T |-> RYWeight(qc.ry, q[0]) * RYWeight(qc.ry, q[1]) * RYWeight(qc.ry, q[2])])

\* classical bit i of the register value r
BitOf(r, i) == (r \div 2^i) % 2

\* the probability, in units of 1/64, that classical bit i is a and bit j is b
PairWeight(qc, i, a, j, b) ==
    LET R == { r \in 0..7 : BitOf(r, i) = a /\ BitOf(r, j) = b }
    IN  SumOver(R, [r \in R |-> JointWeight(qc, r)])

\* the probability, in units of 1/64, that classical bit i is a
MarginalWeight(qc, i, a) == PairWeight(qc, i, a, i, a)

RECURSIVE DictFrom(_, _, _)
\* the dict {key(o): val[o]} over the outcomes of K that are >= o, in ascending order
DictFrom(o, K, val) ==
    IF o > 2^NUM_QUBITS - 1 THEN <<>>
    ELSE (IF o \in K THEN <<[key |-> Format03b(o), n |-> val[o]]>> ELSE <<>>)
         \o DictFrom(o + 1, K, val)

Keys(d) == { d[i].key : i \in DOMAIN d }

\* d[k] for a key of the dict
Lookup(d, k) == LET i == CHOOSE j \in DOMAIN d : d[j].key = k IN d[i].n

RECURSIVE Total(_)
Total(d) == IF d = <<>> THEN 0 ELSE Head(d).n + Total(Tail(d))

(***************************************************************************)
(* Initial state: the interpreter has read the environment (lines 25-33).  *)
(***************************************************************************)
NoRequest == [theta |-> "0", entanglement |-> FALSE]

NoResponse == [status |-> "none"]

ClearHist ==
    [ connectAttempts |-> 0,       \* times the connection block was entered
      connectFailed   |-> FALSE,   \* the connection block raised
      hwFailed        |-> FALSE,   \* some request's hardware execution raised
      hwContacted     |-> FALSE,   \* some request called the hardware target
      priorFailure    |-> FALSE,   \* hwFailed when the request in flight started
      startUsable     |-> FALSE,   \* the test of line 168 when the request started
      statusKnown     |-> FALSE,   \* the request's status query returned a count
      hwAttempted     |-> FALSE,   \* the request entered the hardware branch (178)
      busy            |-> FALSE,   \* the request raised "Queue too long"
      failedStep      |-> "none" ] \* the hardware step of the request that raised

Init ==
    /\ IBM_TOKEN \in TokenValues
    /\ USE_SIMULATOR_FALLBACK \in BOOLEAN
    /\ service = FALSE
    /\ quantum_backend = FALSE
    /\ using_real_quantum = FALSE
    /\ pc = "boot"
    /\ request = NoRequest
    /\ pending_jobs = None
    /\ backend_name = "simulator"
    /\ queue_position = None
    /\ counts = <<>>
    /\ measurement_str = <<>>
    /\ jobHung = FALSE
    /\ response = NoResponse
    /\ hist = ClearHist

(***************************************************************************)
(* Module initialisation, lines 35-59.                                     *)
(***************************************************************************)
\* line 35 without its test for the placeholder value
TokenConfiguredAnyText(token) == token # ""

\* line 35
TokenConfigured(token) == token # "" /\ token # PLACEHOLDER_TOKEN

\* what can happen inside the try block of lines 36-53
ConnectOutcomes == {"ok", "service_raises", "backend_raises", "status_raises"}

\* the try/except without line 57: the flag keeps the value line 50 gave it
FlagAfterConnectNoReset(outcome) == outcome \in {"ok", "status_raises"}

\* using_real_quantum after the try/except: set at line 50, reset at line 57
FlagAfterConnect(outcome) ==
    LET reachedLine50 == outcome \in {"ok", "status_raises"}
        raised == outcome # "ok"
    IN  IF raised THEN FALSE ELSE reachedLine50

Startup ==
    /\ pc = "boot"
    /\ pc' = "idle"
    /\ IF TokenConfigured(IBM_TOKEN)
       THEN \E outcome \in ConnectOutcomes :
              /\ service' = (outcome # "service_raises")
              /\ quantum_backend' = (outcome \in {"ok", "status_raises"})
              /\ using_real_quantum' = FlagAfterConnect(outcome)
              /\ hist' = [hist EXCEPT !.connectAttempts = @ + 1,
                                      !.connectFailed = (outcome # "ok")]
       ELSE UNCHANGED <<service, quantum_backend, using_real_quantum, hist>>
    /\ UNCHANGED <<IBM_TOKEN, USE_SIMULATOR_FALLBACK, locals, response>>

(***************************************************************************)
(* What the simulator and the hardware can return.                         *)
(***************************************************************************)
\* the SHOTS shots in SimGroups groups; the shots of a group fall on one outcome
GroupSize == [g \in 1..SimGroups |-> SHOTS \div SimGroups + (IF g <= SHOTS % SimGroups THEN 1 ELSE 0)]

\* the ways the shot groups can fall on the outcomes of a noiseless run
SimulatorRuns(qc) == [1..SimGroups -> IdealSupport(qc)]

\* result.get_counts() of AerSimulator().run(qc, shots=100): the outcomes that
\* were observed, each with the number of shots that produced it
GetCounts(run) ==
    DictFrom(0, { run[g] : g \in DOMAIN run }, [o \in Outcomes |-> Landed(run, GroupSize, o)])

\* quasi-probabilities are numerators over ProbDenom
ProbDenom == SHOTS * Resolution

\* the probability 1 in QuasiPieces pieces: the first is the smallest
\* representable probability, the others share the rest
PieceSize ==
    [g \in 1..QuasiPieces |->
        IF g = 1 THEN 1
        ELSE LET rest == ProbDenom - 1
                 n == QuasiPieces - 1
             IN  rest \div n + (IF g - 1 <= rest % n THEN 1 ELSE 0)]

\* result.quasi_dists[0]: the returned outcomes (integers) with their
\* probabilities; hardware is noisy, so any outcome can be returned
QuasiDists ==
    { [K |-> { a[g] : g \in DOMAIN a },
       p |-> [o \in Outcomes |-> Landed(a, PieceSize, o)]]
      : a \in [1..QuasiPieces -> Outcomes] }

\* line 204 rounding up instead of truncating
CountOfRoundsUp(probability) == (probability * SHOTS + ProbDenom - 1) \div ProbDenom

\* line 204 with round() for int()
CountOfRounded(probability) == (2 * probability * SHOTS + ProbDenom) \div (2 * ProbDenom)

\* int(probability * shots), line 204
CountOf(probability) == (probability * SHOTS) \div ProbDenom

\* lines 199-204: the counts dict built from the quasi-distribution
ConvertQuasi(q) == DictFrom(0, q.K, [o \in Outcomes |-> CountOf(q.p[o])])

(***************************************************************************)
(* random.choices(population, weights, k=1)[0], lines 229-234.             *)
(***************************************************************************)
CumWeights(d) == [i \in 1..Len(d) |-> Total(SubSeq(d, 1, i))]

RECURSIVE BisectLeft(_, _, _, _)
\* bisect.bisect_left in the place of bisect_right
BisectLeft(a, x, lo, hi) ==
    IF lo < hi
    THEN LET mid == (lo + hi) \div 2
         IN  IF a[mid + 1] < x THEN BisectLeft(a, x, mid + 1, hi) ELSE BisectLeft(a, x, lo, mid)
    ELSE lo

RECURSIVE Bisect(_, _, _, _)
\* bisect.bisect_right(a, x, lo, hi) on the 0-based list a
Bisect(a, x, lo, hi) ==
    IF lo < hi
    THEN LET mid == (lo + hi) \div 2
         IN  IF x < a[mid + 1] THEN Bisect(a, x, lo, mid) ELSE Bisect(a, x, mid + 1, hi)
    ELSE lo

\* random.choices raises on an empty population and on a total weight <= 0
ChoicesRaises(d) == d = <<>> \/ Total(d) <= 0

\* the key drawn when random() * total has integer part x
Choices(d, x) == d[Bisect(CumWeights(d), x, 0, Len(d) - 1) + 1].key

\* random() * total lies in [0, total) and is only ever compared with the
\* cumulative weights, which are integers: its integer part decides the draw,
\* and the integer parts next to a cumulative weight stand for all the others
DrawPoints(d) ==
    LET cum == CumWeights(d)
    IN  { x \in 0..(Total(d) - 1) :
            x = 0 \/ \E i \in DOMAIN cum : x \in {cum[i] - 1, cum[i], cum[i] + 1} }

(***************************************************************************)
(* POST /spin, lines 145-250.                                              *)
(***************************************************************************)
\* line 168
HardwareUsable == using_real_quantum /\ service /\ quantum_backend

\* line 177 with <= for <
UseHardwareOffByOne(pending) == pending <= QUEUE_LIMIT \/ ~USE_SIMULATOR_FALLBACK

\* line 177
UseHardware(pending) == pending < QUEUE_LIMIT \/ ~USE_SIMULATOR_FALLBACK

\* an except clause that logs and re-raises
ExceptHandlerPropagates ==
    /\ using_real_quantum' = FALSE
    /\ pc' = "error"

\* an except clause without line 216
ExceptHandlerKeepsFlag ==
    /\ UNCHANGED using_real_quantum
    /\ pc' = "after_try"

\* lines 212-216: the except clause, after which control reaches line 219
ExceptHandler ==
    /\ using_real_quantum' = FALSE
    /\ pc' = "after_try"

\* lines 159-168
ReceiveSpin ==
    /\ pc = "idle"
    /\ \E theta \in Thetas, entanglement \in BOOLEAN :
          request' = [theta |-> theta, entanglement |-> entanglement]
    /\ backend_name' = "simulator"
    /\ queue_position' = None
    /\ pc' = IF HardwareUsable THEN "status" ELSE "after_try"
    /\ hist' = [hist EXCEPT !.priorFailure = hist.hwFailed,
                            !.startUsable = HardwareUsable]
    /\ UNCHANGED <<globals, pending_jobs, counts, measurement_str, jobHung, response>>

\* lines 171-177 and 210 with queue_position assigned where pending_jobs is read
QueryStatusSetsPosition ==
    /\ pc = "status"
    /\ \/ \E n \in PendingValues :
             /\ pending_jobs' = n
             /\ queue_position' = n
             /\ IF UseHardware(n)
                THEN /\ pc' = "transpile"
                     /\ UNCHANGED using_real_quantum
                     /\ hist' = [hist EXCEPT !.hwContacted = TRUE, !.statusKnown = TRUE,
                                             !.hwAttempted = TRUE]
                ELSE /\ ExceptHandler
                     /\ hist' = [hist EXCEPT !.hwContacted = TRUE, !.statusKnown = TRUE,
                                             !.busy = TRUE]
       \/ /\ ExceptHandler
          /\ hist' = [hist EXCEPT !.hwContacted = TRUE, !.hwFailed = TRUE,
                                  !.failedStep = "status"]
          /\ UNCHANGED <<pending_jobs, queue_position>>
    /\ UNCHANGED <<IBM_TOKEN, USE_SIMULATOR_FALLBACK, service, quantum_backend>>
    /\ UNCHANGED <<request, backend_name, counts, measurement_str, jobHung, response>>

\* lines 171-177 and 210
QueryStatus ==
    /\ pc = "status"
    /\ \/ \E n \in PendingValues :
             /\ pending_jobs' = n
             /\ IF UseHardware(n)
                THEN /\ pc' = "transpile"
                     /\ UNCHANGED using_real_quantum
                     /\ hist' = [hist EXCEPT !.hwContacted = TRUE, !.statusKnown = TRUE,
                                             !.hwAttempted = TRUE]
                ELSE /\ ExceptHandler
                     /\ hist' = [hist EXCEPT !.hwContacted = TRUE, !.statusKnown = TRUE,
                                             !.busy = TRUE]
       \/ /\ ExceptHandler
          /\ hist' = [hist EXCEPT !.hwContacted = TRUE, !.hwFailed = TRUE,
                                  !.failedStep = "status"]
          /\ UNCHANGED pending_jobs
    /\ UNCHANGED <<IBM_TOKEN, USE_SIMULATOR_FALLBACK, service, quantum_backend>>
    /\ UNCHANGED <<request, backend_name, queue_position, counts, measurement_str, jobHung, response>>

\* line 181
Transpile ==
    /\ pc = "transpile"
    /\ \/ /\ pc' = "submit"
          /\ UNCHANGED <<using_real_quantum, hist>>
       \/ /\ ExceptHandler
          /\ hist' = [hist EXCEPT !.hwFailed = TRUE, !.failedStep = "transpile"]
    /\ UNCHANGED <<IBM_TOKEN, USE_SIMULATOR_FALLBACK, service, quantum_backend>>
    /\ UNCHANGED <<locals, response>>

\* lines 184-190
Submit ==
    /\ pc = "submit"
    /\ \/ /\ pc' = "result"
          /\ jobHung' \in BOOLEAN
          /\ UNCHANGED <<using_real_quantum, hist>>
       \/ /\ ExceptHandler
          /\ hist' = [hist EXCEPT !.hwFailed = TRUE, !.failedStep = "submit"]
          /\ UNCHANGED jobHung
    /\ UNCHANGED <<IBM_TOKEN, USE_SIMULATOR_FALLBACK, service, quantum_backend>>
    /\ UNCHANGED <<request, pending_jobs, backend_name, queue_position, counts, measurement_str, response>>

\* lines 193-208 with the assignment of line 206 placed before the conversion
\* loop of lines 201-204
JobResultNamesBackendFirst ==
    /\ pc = "result"
    /\ ~jobHung
    /\ \/ \E q \in QuasiDists :
             /\ counts' = ConvertQuasi(q)
             /\ backend_name' = HARDWARE_NAME
             /\ queue_position' = pending_jobs
             /\ pc' = "after_try"
             /\ UNCHANGED <<using_real_quantum, hist>>
       \/ \E q \in QuasiDists :
             \E done \in 0..(Cardinality(q.K) - 1) :
                /\ counts' = SubSeq(ConvertQuasi(q), 1, done)
                /\ backend_name' = HARDWARE_NAME
                /\ ExceptHandler
                /\ hist' = [hist EXCEPT !.hwFailed = TRUE, !.failedStep = "convert"]
                /\ UNCHANGED queue_position
       \/ /\ ExceptHandler
          /\ hist' = [hist EXCEPT !.hwFailed = TRUE, !.failedStep = "result"]
          /\ UNCHANGED <<counts, backend_name, queue_position>>
    /\ UNCHANGED <<IBM_TOKEN, USE_SIMULATOR_FALLBACK, service, quantum_backend>>
    /\ UNCHANGED <<request, pending_jobs, measurement_str, jobHung, response>>

\* lines 193-208: job.result() returns or raises; there is no timeout argument,
\* so a job that never finishes leaves the handler inside job.result()
JobResult ==
    /\ pc = "result"
    /\ ~jobHung
    /\ \/ \E q \in QuasiDists :
             /\ counts' = ConvertQuasi(q)
             /\ backend_name' = HARDWARE_NAME
             /\ queue_position' = pending_jobs
             /\ pc' = "after_try"
             /\ UNCHANGED <<using_real_quantum, hist>>
       \/ \E q \in QuasiDists :
             \* int() raises on one of the probabilities (a NaN): the entries
             \* converted before it stay in counts
             \E done \in 0..(Cardinality(q.K) - 1) :
                /\ counts' = SubSeq(ConvertQuasi(q), 1, done)
                /\ ExceptHandler
                /\ hist' = [hist EXCEPT !.hwFailed = TRUE, !.failedStep = "convert"]
                /\ UNCHANGED <<backend_name, queue_position>>
       \/ /\ ExceptHandler
          /\ hist' = [hist EXCEPT !.hwFailed = TRUE, !.failedStep = "result"]
          /\ UNCHANGED <<counts, backend_name, queue_position>>
    /\ UNCHANGED <<IBM_TOKEN, USE_SIMULATOR_FALLBACK, service, quantum_backend>>
    /\ UNCHANGED <<request, pending_jobs, measurement_str, jobHung, response>>

\* lines 219-226
Simulate ==
    /\ pc = "after_try"
    /\ pc' = "sample"
    /\ IF backend_name = "simulator"
       THEN /\ \E run \in SimulatorRuns(create_quantum_circuit(request.theta, request.entanglement)) :
                  counts' = GetCounts(run)
            /\ backend_name' = SIMULATOR_NAME
       ELSE UNCHANGED <<counts, backend_name>>
    /\ UNCHANGED <<globals, request, pending_jobs, queue_position, measurement_str, jobHung, response, hist>>

\* the indexing of line 131 (measurement % len(SYMBOLS)) applied to a bit
SymbolOfWholeIndex(m) == SYMBOLS[(m % Len(SYMBOLS)) + 1]

\* lines 240-241
SymbolOf(m) ==
    LET SYMBOL_OFFSET == Len(SYMBOLS) \div 2
    IN  SYMBOLS[((m * SYMBOL_OFFSET) % Len(SYMBOLS)) + 1]

\* lines 236-250
SpinResponse(drawn) ==
    LET measurements == [i \in 1..Len(drawn) |-> IntOfBit(drawn[i])]
    IN  [ status         |-> "ok",
          symbols        |-> [i \in 1..Len(measurements) |-> SymbolOf(measurements[i])],
          measurements   |-> measurements,
          distribution   |-> counts,
          backend_used   |-> backend_name,
          queue_position |-> queue_position ]

\* lines 229-250; an exception of random.choices leaves the handler uncaught
Respond ==
    /\ pc = "sample"
    /\ IF ChoicesRaises(counts)
       THEN /\ pc' = "error"
            /\ response' = [status |-> "error"]
            /\ UNCHANGED measurement_str
       ELSE \E x \in DrawPoints(counts) :
              /\ measurement_str' = Choices(counts, x)
              /\ response' = SpinResponse(measurement_str')
              /\ pc' = "done"
    /\ UNCHANGED <<globals, request, pending_jobs, backend_name, queue_position, counts, jobHung, hist>>

\* the response is sent and the handler's frame is gone
Return ==
    /\ pc \in {"done", "error", "root_done", "info_done"}
    /\ pc' = "idle"
    /\ request' = NoRequest
    /\ pending_jobs' = None
    /\ backend_name' = "simulator"
    /\ queue_position' = None
    /\ counts' = <<>>
    /\ measurement_str' = <<>>
    /\ jobHung' = FALSE
    /\ response' = NoResponse
    /\ hist' = [hist EXCEPT !.priorFailure = FALSE,
                            !.startUsable = FALSE,
                            !.statusKnown = FALSE,
                            !.hwAttempted = FALSE,
                            !.busy = FALSE,
                            !.failedStep = "none"]
    /\ UNCHANGED globals

(***************************************************************************)
(* GET / and GET /info, lines 134-141 and 253-290.                         *)
(***************************************************************************)
\* lines 134-141
Root ==
    /\ pc = "idle"
    /\ pc' = "root_done"
    /\ response' = [status |-> "ok", message |-> "Quantum Slot Machine API"]
    /\ UNCHANGED <<globals, locals, hist>>

\* the payload of lines 258-290 when quantum_backend.status() answered
InfoPayload(pending) ==
    [ status                 |-> "ok",
      connected              |-> using_real_quantum,
      backend                |-> HARDWARE_NAME,
      pending_jobs           |-> pending,
      real_randomness        |-> using_real_quantum,
      use_simulator_fallback |-> USE_SIMULATOR_FALLBACK,
      max_queue_wait         |-> MAX_QUEUE_WAIT ]

\* the payload of lines 258-290 without a hardware handle
InfoPayloadNoBackend ==
    [ status                 |-> "ok",
      connected              |-> FALSE,
      real_randomness        |-> using_real_quantum,
      use_simulator_fallback |-> USE_SIMULATOR_FALLBACK,
      max_queue_wait         |-> MAX_QUEUE_WAIT ]

\* /info with an except clause like spin's around quantum_backend.status()
InfoDowngradesOnError ==
    /\ pc = "idle"
    /\ pc' = "info_done"
    /\ IF quantum_backend
       THEN \/ /\ \E n \in PendingValues : response' = InfoPayload(n)
               /\ UNCHANGED using_real_quantum
            \/ /\ response' = InfoPayloadNoBackend
               /\ using_real_quantum' = FALSE
       ELSE /\ response' = InfoPayloadNoBackend
            /\ UNCHANGED using_real_quantum
    /\ UNCHANGED <<IBM_TOKEN, USE_SIMULATOR_FALLBACK, service, quantum_backend, locals, hist>>

\* lines 253-290: with a handle, quantum_backend.status() is called (lines
\* 264-265) whatever the flag says, and an exception of it is not caught
Info ==
    /\ pc = "idle"
    /\ pc' = "info_done"
    /\ IF quantum_backend
       THEN \/ \E n \in PendingValues : response' = InfoPayload(n)
            \/ response' = [status |-> "error"]
       ELSE response' = InfoPayloadNoBackend
    /\ UNCHANGED <<globals, locals, hist>>

Next ==
    \/ Startup
    \/ ReceiveSpin
    \/ QueryStatus
    \/ Transpile
    \/ Submit
    \/ JobResult
    \/ Simulate
    \/ Respond
    \/ Return
    \/ Root
    \/ Info

Spec == Init /\ [][Next]_vars

\* the steps the process takes by itself; a job that is not hung answers
ProcessStep ==
    \/ Startup
    \/ QueryStatus
    \/ Transpile
    \/ Submit
    \/ JobResult
    \/ Simulate
    \/ Respond
    \/ Return

\* the interpreter keeps executing the handler's statements, and a call that
\* returns or raises does so eventually
FairSpec == Spec /\ WF_vars(ProcessStep)


(***************************************************************************)
(* Properties.                                                             *)
(***************************************************************************)
InFlight == pc \notin {"boot", "idle"}

OnHardwarePath == pc \in {"status", "transpile", "submit", "result"}

IsBitString(k) == Len(k) = NUM_QUBITS /\ \A i \in 1..Len(k) : k[i] \in {"0", "1"}

\* C1: a /spin request never ends in an error; it ends in a full response, and
\* when a hardware step of the request raised (status query, transpilation,
\* submission, result retrieval, count conversion) the rest of the request
\* runs on the simulator: its counts are all the shots of a noiseless run of
\* the request's circuit and its backend is the simulator's.
C1_SpinNeverErrors ==
    /\ pc # "error"
    /\ (hist.failedStep # "none" /\ pc \in {"sample", "done"}) =>
          /\ backend_name = SIMULATOR_NAME
          /\ Total(counts) = SHOTS
          /\ \A i \in DOMAIN counts :
                /\ counts[i].n > 0
                /\ \E o \in IdealSupport(create_quantum_circuit(request.theta, request.entanglement)) :
                      counts[i].key = Format03b(o)
    /\ pc = "done" =>
          /\ response.status = "ok"
          /\ Len(response.symbols) = NUM_QUBITS
          /\ Len(response.measurements) = NUM_QUBITS
          /\ response.distribution # <<>>
          /\ response.backend_used \in {SIMULATOR_NAME, HARDWARE_NAME}
          /\ (hist.failedStep # "none" => response.backend_used = SIMULATOR_NAME)

\* a request whose count conversion raised part-way has been answered
C1_Witness ==
    /\ pc = "done"
    /\ hist.failedStep = "convert"
    /\ response.status = "ok"

\* C2: a request that starts after some request's hardware execution raised
\* never touches the hardware and reports the simulator as its backend.
C2_SimulatorAfterFailure ==
    (InFlight /\ hist.priorFailure) =>
        /\ ~hist.startUsable
        /\ ~OnHardwarePath
        /\ ~hist.hwAttempted
        /\ backend_name # HARDWARE_NAME
        /\ (pc = "done" => response.backend_used = SIMULATOR_NAME)

C2_Witness ==
    /\ pc = "done"
    /\ hist.priorFailure
    /\ quantum_backend
    /\ response.backend_used = SIMULATOR_NAME

\* C3: a request that finds the queue busy (pending jobs >= 10 with
\* fallback-on-busy enabled) leaves the using-hardware flag and the handle as
\* they were when it started, that is, usable.
C3_BusyKeepsHardware ==
    (InFlight /\ hist.busy) => (using_real_quantum /\ service /\ quantum_backend)

\* C4: a request whose submitted job never returns a result is eventually
\* answered.
C4_HungJobTimesOut == (pc = "result" /\ jobHung) ~> (pc = "done")

\* C5: when the hardware is usable at the start of a request and the status
\* query returned a pending-job count, the request enters the hardware branch
\* if and only if the count is below 10 or fallback-on-busy is disabled.
C5_HardwareIffQueueShort ==
    (InFlight /\ hist.startUsable /\ hist.statusKnown) =>
        (hist.hwAttempted <=> (pending_jobs < 10 \/ USE_SIMULATOR_FALLBACK = FALSE))

\* with fallback-on-busy disabled a request goes to hardware on a long queue
C5_Witness ==
    /\ pc = "transpile"
    /\ hist.hwAttempted
    /\ pending_jobs > 10
    /\ ~USE_SIMULATOR_FALLBACK

\* C6: with the token absent or the placeholder, no connection is made, no
\* request ever calls the hardware, and every response names the simulator.
C6_NoTokenSimulatorOnly ==
    (IBM_TOKEN \in {"", "your_token_here"}) =>
        /\ hist.connectAttempts = 0
        /\ ~hist.hwContacted
        /\ ~OnHardwarePath
        /\ ~hist.hwAttempted
        /\ backend_name # HARDWARE_NAME
        /\ (pc = "done" => response.backend_used = SIMULATOR_NAME)

C6_Witness ==
    /\ IBM_TOKEN = "your_token_here"
    /\ pc = "done"
    /\ response.backend_used = SIMULATOR_NAME

\* C7: when the connection block raised, the process still serves requests,
\* the using-hardware flag is false ever after, the connection was tried once
\* only, and every request runs on the simulator without calling the hardware.
C7_ConnectFailureIsPermanent ==
    hist.connectFailed =>
        /\ pc # "boot"
        /\ ~using_real_quantum
        /\ hist.connectAttempts = 1
        /\ ~hist.hwContacted
        /\ ~OnHardwarePath
        /\ backend_name # HARDWARE_NAME
        /\ (pc = "done" => response.backend_used = SIMULATOR_NAME /\ response.status = "ok")

\* the connection block raised after the target was resolved, and a request
\* was answered afterwards
C7_Witness ==
    /\ hist.connectFailed
    /\ quantum_backend
    /\ pc = "done"

\* C8: queue_position is set only in a request that entered the hardware branch.
C8_QueuePositionOnlyOnHardware ==
    /\ (InFlight /\ queue_position # None) => hist.hwAttempted
    /\ pc = "done" =>
          /\ response.queue_position = queue_position
          /\ (~hist.hwAttempted => response.queue_position = None)

C8_Witness ==
    /\ pc = "done"
    /\ response.queue_position # None
    /\ hist.hwAttempted

\* C9 as stated: the counts of every returned distribution are non-negative,
\* sum to the shot count, and its keys are 3-character bit-strings.
C9_CountsSumToShots ==
    pc = "done" =>
        /\ \A i \in DOMAIN response.distribution :
              /\ response.distribution[i].n >= 0
              /\ IsBitString(response.distribution[i].key)
        /\ Total(response.distribution) = SHOTS

\* C9 amended: the counts of every returned distribution are non-negative and
\* its keys are 3-character bit-strings; the counts sum to the shot count on
\* the simulator path and to at most the shot count on the hardware path.
C9_CountsWithinShots ==
    pc = "done" =>
        /\ \A i \in DOMAIN response.distribution :
              /\ response.distribution[i].n >= 0
              /\ IsBitString(response.distribution[i].key)
        /\ (response.backend_used = SIMULATOR_NAME => Total(response.distribution) = SHOTS)
        /\ (response.backend_used = HARDWARE_NAME => Total(response.distribution) <= SHOTS)

\* a hardware response whose counts fall short of the shot count
C9_Witness ==
    /\ pc = "done"
    /\ response.backend_used = HARDWARE_NAME
    /\ Total(response.distribution) < SHOTS

\* C10: the drawn bit-string is a key of the returned distribution and its
\* count there is not zero.
C10_DrawnHasNonzeroCount ==
    pc = "done" =>
        /\ measurement_str \in Keys(response.distribution)
        /\ Lookup(response.distribution, measurement_str) > 0
        /\ response.measurements = [i \in 1..NUM_QUBITS |-> IF measurement_str[i] = "1" THEN 1 ELSE 0]

\* a hardware response whose distribution holds a key truncated to count 0
C10_Witness ==
    /\ pc = "done"
    /\ response.backend_used = HARDWARE_NAME
    /\ \E i \in DOMAIN response.distribution : response.distribution[i].n = 0

\* C11: a response holds 3 symbols and 3 measurements, every measurement is 0
\* or 1, and the symbol of a unit is SYMBOLS[0] for bit 0 and SYMBOLS[4] for
\* bit 1, two different symbols.
C11_SymbolsFollowBits ==
    pc = "done" =>
        /\ Len(response.symbols) = 3
        /\ Len(response.measurements) = 3
        /\ SYMBOLS[1] # SYMBOLS[5]
        /\ \A i \in 1..3 :
              /\ response.measurements[i] \in {0, 1}
              /\ response.measurements[i] = 0 => response.symbols[i] = SYMBOLS[1]
              /\ response.measurements[i] = 1 => response.symbols[i] = SYMBOLS[5]

\* a response that shows both symbols
C11_Witness ==
    /\ pc = "done"
    /\ \E i, j \in 1..3 : response.measurements[i] = 0 /\ response.measurements[j] = 1

\* C12 as stated: without entanglement every request with theta = 0 answers
\* measurements [0,0,0] and three times SYMBOLS[0], and every request with
\* theta = pi answers measurements [1,1,1].
C12_ExtremeAngles ==
    (pc = "done" /\ ~request.entanglement) =>
        /\ request.theta = "0" =>
              /\ response.measurements = <<0, 0, 0>>
              /\ response.symbols = <<SYMBOLS[1], SYMBOLS[1], SYMBOLS[1]>>
        /\ request.theta = "pi" => response.measurements = <<1, 1, 1>>

\* C12 amended: the same, for the requests answered by the simulator.
C12_ExtremeAnglesOnSimulator ==
    (pc = "done" /\ ~request.entanglement /\ response.backend_used = SIMULATOR_NAME) =>
        /\ request.theta = "0" =>
              /\ response.measurements = <<0, 0, 0>>
              /\ response.symbols = <<SYMBOLS[1], SYMBOLS[1], SYMBOLS[1]>>
        /\ request.theta = "pi" => response.measurements = <<1, 1, 1>>

C12_Witness ==
    /\ pc = "done"
    /\ ~request.entanglement
    /\ request.theta = "pi"
    /\ response.backend_used = SIMULATOR_NAME
    /\ response.measurements = <<1, 1, 1>>

\* the outcome of unit i is not independent of the outcome of unit 0
DependsOnUnit0(qc, i) ==
    \E a, b \in {0, 1} :
        PairWeight(qc, 0, a, i, b) * 64 # MarginalWeight(qc, 0, a) * MarginalWeight(qc, i, b)

\* the joint distribution is not the product of its marginals
DeviatesFromProduct(qc) ==
    \E r \in 0..7 :
        JointWeight(qc, r) * 64 * 64 #
            MarginalWeight(qc, 0, BitOf(r, 0)) * MarginalWeight(qc, 1, BitOf(r, 1))
                * MarginalWeight(qc, 2, BitOf(r, 2))

\* C13: the circuit of an entangled request at an angle that puts the units in
\* superposition (the default pi/2 among them) gives units 1 and 2 outcomes
\* that are not independent of unit 0's: the joint distribution deviates from
\* the product of its marginals.
C13_EntangledUnitsCorrelated ==
    (pc = "after_try" /\ request.entanglement /\ RYBits(request.theta) = {0, 1}) =>
        LET qc == create_quantum_circuit(request.theta, request.entanglement)
        IN  /\ DependsOnUnit0(qc, 1)
            /\ DependsOnUnit0(qc, 2)
            /\ DeviatesFromProduct(qc)

\* C14: handling GET /info or GET / leaves the using-hardware flag, the
\* service, the hardware handle and the fallback setting as they were, so the
\* next /spin chooses its backend as it would have without that request.
C14_InfoHasNoSideEffects ==
    [][(pc = "idle" /\ pc' \in {"info_done", "root_done"}) =>
          /\ using_real_quantum' = using_real_quantum
          /\ service' = service
          /\ quantum_backend' = quantum_backend
          /\ USE_SIMULATOR_FALLBACK' = USE_SIMULATOR_FALLBACK
          /\ hist' = hist]_vars

\* /info was handled with the hardware connected, and its status call raised
C14_Witness ==
    /\ pc = "info_done"
    /\ response.status = "error"
    /\ using_real_quantum

\* C15: the response of a request whose hardware attempt raised names the
\* simulator, has no queue_position, and its distribution is the simulator's:
\* all the shots, on outcomes of a noiseless run of the request's circuit,
\* whatever the conversion had put in counts before it raised.
C15_FailedAttemptAnsweredBySimulator ==
    (pc = "done" /\ hist.failedStep # "none") =>
        /\ response.backend_used = SIMULATOR_NAME
        /\ response.queue_position = None
        /\ Total(response.distribution) = SHOTS
        /\ \A i \in DOMAIN response.distribution :
              /\ response.distribution[i].n > 0
              /\ \E o \in IdealSupport(create_quantum_circuit(request.theta, request.entanglement)) :
                    response.distribution[i].key = Format03b(o)
        /\ response.distribution = counts

\* a request whose conversion raised was answered without a queue position
C15_Witness ==
    /\ pc = "done"
    /\ hist.failedStep = "convert"
    /\ pending_jobs # None
    /\ response.queue_position = None
    /\ response.backend_used = SIMULATOR_NAME

\* C16: once the process has started, no step turns the using-hardware flag
\* from false to true, and after a recorded hardware failure the flag is false.
C16_FlagNeverRestored ==
    [][/\ (pc # "boot" /\ ~using_real_quantum) => ~using_real_quantum'
       /\ hist'.hwFailed => ~using_real_quantum']_vars

\* a request is served after the downgrade, with service and handle still there
C16_Witness ==
    /\ pc = "sample"
    /\ hist.priorFailure
    /\ service
    /\ quantum_backend
    /\ ~using_real_quantum

\* C17: the counts built on the hardware path sum to at most the shot count
\* and to more than the shot count minus the number of returned outcomes, and
\* the draw from them does not fail: it yields one of their keys.
C17_TruncatedCountsStillDrawn ==
    /\ (pc \in {"sample", "done"} /\ backend_name = HARDWARE_NAME) =>
          /\ Total(counts) <= SHOTS
          /\ Total(counts) > SHOTS - Len(counts)
          /\ \A i \in DOMAIN counts : counts[i].n >= 0 /\ counts[i].n <= SHOTS
    /\ (pc = "error") => backend_name # HARDWARE_NAME
    /\ (pc = "done" /\ backend_name = HARDWARE_NAME) =>
          /\ response.status = "ok"
          /\ \E i \in DOMAIN counts : counts[i].key = measurement_str

\* a key was drawn from hardware counts that sum to one less than the shots
C17_Witness ==
    /\ pc = "done"
    /\ backend_name = HARDWARE_NAME
    /\ Total(counts) = SHOTS - 1
    /\ Len(measurement_str) = 3

\* C18: a response names the hardware target exactly when its queue_position
\* is set; that happens only in a request that found the hardware usable at
\* its start and whose hardware execution raised nothing, and queue_position
\* is then the pending-job count the request queried; every other response
\* names the simulator.
C18_BackendAndQueuePosition ==
    pc = "done" =>
        /\ (response.backend_used = HARDWARE_NAME) <=> (response.queue_position # None)
        /\ response.backend_used = HARDWARE_NAME =>
              /\ hist.startUsable
              /\ hist.statusKnown
              /\ hist.hwAttempted
              /\ hist.failedStep = "none"
              /\ ~hist.busy
              /\ response.queue_position = pending_jobs
        /\ response.backend_used # HARDWARE_NAME => response.backend_used = SIMULATOR_NAME

C18_Witness ==
    /\ pc = "done"
    /\ response.backend_used = HARDWARE_NAME
    /\ response.queue_position = pending_jobs
    /\ pending_jobs >= 10

====
